---- MODULE Spec2Model ----
(***************************************************************************)
(* Guest query limit, authentication session and request interceptor of    *)
(* the nyaya frontend, as a state machine.                                 *)
(*                                                                         *)
(*   useQueryLimit        src/frontend/frontend-test.js:42-108             *)
(*   QueryLimitProvider   src/frontend/app/QueryLimitContext.tsx           *)
(*   AuthProvider         src/frontend/app/admin/document-management/      *)
(*                        page.tsx:420-747                                 *)
(*   ChatContent          src/frontend/app/chat/page.tsx                   *)
(*                                                                         *)
(* React state is modelled by one variable per useState cell.  A handler   *)
(* reads the state of the render it was created in; handlers are taken     *)
(* from the latest render, so the values a handler closes over are the     *)
(* values of the state in which it is called, and an asynchronous handler  *)
(* keeps them (in its flow record) across its awaits.  The effects that a  *)
(* commit schedules run before the next event is handled, so an action is  *)
(* the handler together with the effects its state changes trigger.        *)
(***************************************************************************)
EXTENDS Integers, Sequences, FiniteSets

(* ------------------------------ bounds -------------------------------- *)

\* the clock starts at Now0 and is advanced at most to MaxNow
Now0 == 2
MaxNow == 3
\* calls of incrementCount() made on the hook directly
MaxIncrements == 22
\* guest/authenticated chat exchanges submitted in one run
MaxExchanges == 2
\* requests awaiting a response at the same time
MaxInFlight == 1

(* --------------------------- program constants ------------------------ *)

QUERY_LIMIT == 20

authRoutes == {"/signin", "/signup", "/resetPassword", "/verifiedEmail"}
protectedRoutes == {"/chat", "/profile"}

(* ------------------------------ values -------------------------------- *)

\* JavaScript null/undefined of a string-valued cell
NULL == "null"

\* A token string.  fmt "jwt": decodable, exp its expiry claim in seconds
\* (0: no exp claim, which JavaScript's && treats like a missing one);
\* fmt "bad": not decodable; fmt "opaque": a refresh token.  id names the
\* server response (or login) that issued the token.
NoToken == [id |-> 0, fmt |-> "null", exp |-> 0]
Jwt(i, e) == [id |-> i, fmt |-> "jwt", exp |-> e]
BadJwt(i) == [id |-> i, fmt |-> "bad", exp |-> 0]
Opaque(i) == [id |-> i, fmt |-> "opaque", exp |-> 0]

\* localStorage entries are strings, modelled as sequences of characters;
\* NoEntry is what getItem returns (null) when the key is absent.
NoEntry == <<"null">>
\* localStorage of which every access throws (disabled, or over quota)
Disabled == <<"throws">>
Digits == <<"0", "1", "2", "3", "4", "5", "6", "7", "8", "9">>

RECURSIVE toString(_)
\* Number.prototype.toString() of a non-negative integer
toString(n) ==
    IF n < 10 THEN <<Digits[n + 1]>>
    ELSE toString(n \div 10) \o <<Digits[(n % 10) + 1]>>

DigitValue(c) == CHOOSE d \in 0..9 : Digits[d + 1] = c
IsDigit(c) == \E d \in 0..9 : Digits[d + 1] = c

RECURSIVE ParseDigits(_, _)
\* value of the longest prefix of digits of s, acc the value read so far
ParseDigits(s, acc) ==
    IF s = <<>> \/ ~IsDigit(Head(s)) THEN acc
    ELSE ParseDigits(Tail(s), 10 * acc + DigitValue(Head(s)))

\* parseInt(s, 10): [nan |-> TRUE] when no digit follows the optional sign
NaN == [nan |-> TRUE, val |-> 0]
parseInt(s) ==
    LET neg  == s # <<>> /\ Head(s) = "-"
        body == IF neg THEN Tail(s) ELSE s
    IN  IF body = <<>> \/ ~IsDigit(Head(body)) THEN NaN
        ELSE [nan |-> FALSE,
              val |-> IF neg THEN 0 - ParseDigits(body, 0) ELSE ParseDigits(body, 0)]

(* ------------------------------- state -------------------------------- *)

VARIABLES
    queryCount,        \* useQueryLimit: useState<number>(0)
    storage,           \* localStorage entry under STORAGE_KEY
    session,           \* AuthProvider: the eight useState cells
    cookies,           \* js-cookie: accessToken, refreshToken, email, firstName, lastName
    pathname,          \* usePathname()
    nav,               \* target of the last router.push, NULL before the first
    showSignupDialog,  \* ChatContent: useState(false)
    req,               \* the request going through axiosInstance's interceptor
    req2,              \* a second request going through it at the same time
    lg,                \* login(): where it is awaiting
    chk,               \* checkAuthStatus(): where it is awaiting
    chat,              \* useChat: exchanges being streamed
    now,               \* Date.now() / 1000
    exchanges,         \* chat requests started so far
    mounted,           \* the providers have mounted
    incs,              \* incrementCount() calls since the count was last 0 by
                       \* initialisation or reset; -1 when it was read non-zero
    last               \* the step just taken and the request it sent

vars == <<queryCount, storage, session, cookies, pathname, nav, showSignupDialog,
          req, req2, lg, chk, chat, now, exchanges, mounted, incs, last>>

Routes == {"/", "/signin", "/chat"}

NoSession ==
    [isAuthenticated |-> FALSE, email |-> NULL, firstName |-> NULL, lastName |-> NULL,
     role |-> NULL, isAdmin |-> FALSE, accessToken |-> NoToken, refreshToken |-> NoToken]

NoCookies ==
    [accessToken |-> NoToken, refreshToken |-> NoToken,
     email |-> NULL, firstName |-> NULL, lastName |-> NULL]

\* variant: the email cookie not written
CookiesOfTokens(t) ==
    [accessToken |-> t, refreshToken |-> Opaque(t.id),
     email |-> NULL, firstName |-> "A", lastName |-> "L"]
\* cookies left by an earlier login with access token t
CookiesOf(t) ==
    [accessToken |-> t, refreshToken |-> Opaque(t.id),
     email |-> "a@x", firstName |-> "A", lastName |-> "L"]

\* an asynchronous handler: pc where it awaits, rt the refreshToken cell and
\* path the pathname of the render it was taken from; for a request through
\* the interceptor, shape what its access token was and refreshes the
\* refresh exchanges made for it
IdleFlow == [pc |-> "idle", rt |-> NoToken, path |-> NULL, shape |-> "none", refreshes |-> 0]
NoChat == [guest |-> 0, auth |-> 0]

\* last: op the action, path/bearer the HTTP request that left the client in
\* this step (path NULL: none), status the response the step handled (0:
\* none); for a step of a request through the interceptor, shape and
\* refreshes of that request
ReqStep(op, path, bearer, status, shape, refreshes) ==
    [op |-> op, path |-> path, bearer |-> bearer, status |-> status,
     shape |-> shape, refreshes |-> refreshes]
Step(op, path, bearer, status) == ReqStep(op, path, bearer, status, "none", 0)

Truthy(t) == t.fmt # "null"

\* the flows awaiting a response
Awaiting(f) == IF f.pc \in {"me", "refreshing", "retry"} THEN 1 ELSE 0
InFlight == Awaiting(req) + Awaiting(req2) + Awaiting(lg) + Awaiting(chk) + chat.guest + chat.auth

(* --------------------------- useQueryLimit ----------------------------- *)

\* variant: the difference without Math.max
remainingQueriesUnclamped == QUERY_LIMIT - queryCount
remainingQueries == IF QUERY_LIMIT - queryCount > 0 THEN QUERY_LIMIT - queryCount ELSE 0
hasExceededLimit == queryCount >= QUERY_LIMIT
\* variant: the limit compared with <=
canMakeQueryInclusive == queryCount <= QUERY_LIMIT
canMakeQuery == queryCount < QUERY_LIMIT

\* variant: the hook without its init effect
InitialCountUnread(stored) == 0
\* the mount effect: the count read from localStorage, 0 when there is none
InitialCount(stored) ==
    IF stored = Disabled THEN 0
    ELSE IF stored # NoEntry /\ stored # <<>>
    THEN LET count == parseInt(stored)
         IN  IF ~count.nan /\ count.val >= 0 THEN count.val ELSE 0
    ELSE 0

\* variant: the storage calls outside try/catch
EscapesUncaught(threw) == threw
\* try { <storage call> } catch (error) { console.error(...) }: whether an
\* error thrown by the call leaves the hook, which takes the React tree down
Escapes(threw) == FALSE

\* what localStorage holds after writes that would leave w in a working one
Written(st, w) == IF st = Disabled THEN st ELSE w

\* variant: a listener that reads the entry again when another tab writes it
OnStorageEventSynced(c, v) == InitialCount(v)
\* the count after another tab has set the entry to v: useQueryLimit
\* registers no 'storage' listener
OnStorageEvent(c, v) == c

\* variant: the persist effect left out
PersistNever(c0, c1, st) == st
\* the persist effect, run when queryCount changed from c0 to c1
Persist(c0, c1, st) == IF c1 # c0 THEN toString(c1) ELSE st

\* resetCount() on a count c: setQueryCount(0), removeItem, and the persist
\* effect that the change of queryCount triggers
resetCount(c) == [queryCount |-> 0, storage |-> Persist(c, 0, NoEntry)]

\* variant: QueryLimitProvider without its effect
AfterCommitPersistOnly(c0, c1, a0, a1, st) ==
    [queryCount |-> c1, storage |-> Persist(c0, c1, st)]
\* The effects of one commit: queryCount went c0 -> c1 and isAuthenticated
\* a0 -> a1.  The persist effect of useQueryLimit runs before the
\* QueryLimitProvider effect, which resets the count when the user has
\* become authenticated.
AfterCommit(c0, c1, a0, a1, st) ==
    IF a1 /\ ~a0
    THEN resetCount(c1)
    ELSE [queryCount |-> c1, storage |-> Persist(c0, c1, st)]

\* incrementCount(): setQueryCount((prev) => prev + 1)
incrementCount(prev) == prev + 1

\* incs after a step that made n calls of incrementCount() and left count c
Counted(n, c, reset) ==
    IF reset THEN 0 ELSE IF incs >= 0 THEN incs + n ELSE incs

\* a step that sets the count to c1 (by n calls of incrementCount()) and
\* isAuthenticated to a1
Commit(c1, a1, n) ==
    LET r == AfterCommit(queryCount, c1, session.isAuthenticated, a1, storage)
    IN  /\ queryCount' = r.queryCount
        /\ storage' = Written(storage, r.storage)
        /\ incs' = Counted(n, r.queryCount, a1 /\ ~session.isAuthenticated)

(* ---------------------------- AuthProvider ----------------------------- *)

\* variant: only the two token cookies removed
logoutTokenCookies ==
    [session |-> NoSession,
     cookies |-> [cookies EXCEPT !.accessToken = NoToken, !.refreshToken = NoToken],
     nav |-> "/signin"]
\* logout(): the five cookies removed, the eight cells reset, router.push
logout == [session |-> NoSession, cookies |-> NoCookies, nav |-> "/signin"]

\* variant: setIsAdmin left out
WithRoleOnly(s, r) == [s EXCEPT !.role = IF r = NULL THEN "user" ELSE r]
\* const userRole = response.data.role || 'user'; setRole; setIsAdmin
WithRole(s, r) ==
    LET userRole == IF r = NULL THEN "user" ELSE r
    IN  [s EXCEPT !.role = userRole, !.isAdmin = (userRole = "admin")]

\* variant: the role left as it is
DefaultRoleUnset(s) == s
\* the fail-open default: setRole('user'); setIsAdmin(false)
DefaultRole(s) == [s EXCEPT !.role = "user", !.isAdmin = FALSE]

\* The server numbers the pairs it issues.  A new pair gets the least number
\* that no token held anywhere in the client carries.
UsedIds ==
    {t.id : t \in {session.accessToken, session.refreshToken, cookies.accessToken,
                   cookies.refreshToken, req.rt, req2.rt, lg.rt, chk.rt,
                   last.bearer}}
FreshId == CHOOSE i \in 1..9 : i \notin UsedIds /\ \A j \in 1..(i - 1) : j \in UsedIds

\* variant: only the access token cell set
RefreshedAccessOnly(s, i) == [s EXCEPT !.accessToken = Jwt(i, now + 1)]
\* refreshAccessToken() on a response carrying the pair numbered i:
\* the two cells and the two cookies
Refreshed(s, i) ==
    [s EXCEPT !.accessToken = Jwt(i, now + 1), !.refreshToken = Opaque(i)]
\* variant: only the accessToken cookie written
RefreshedCookiesAccessOnly(c, i) == [c EXCEPT !.accessToken = Jwt(i, now + 1)]
RefreshedCookies(c, i) ==
    [c EXCEPT !.accessToken = Jwt(i, now + 1), !.refreshToken = Opaque(i)]

\* error.response?.status === 401 || error.response?.status === 403
Rejected(status) == status \in {401, 403}

\* what a failed refresh exchange leaves: refreshAccessToken() calls
\* logout() when the exchange was rejected with 401/403, and returns null
RefreshFailed(st) ==
    IF Rejected(st) THEN logout
    ELSE [session |-> session, cookies |-> cookies, nav |-> nav]

\* the responses of the server: a failure status (0: no response at all),
\* and the role field of a successful /api/auth/me (NULL: no role field)
FailStatus == {0, 401, 403, 500}
RoleField == {"admin", "user", NULL}

\* jwtDecode(token): throws on a token that is not a JWT
jwtDecode(t) == [throws |-> t.fmt # "jwt", exp |-> t.exp]

\* variant: exp, in seconds, compared with a clock in milliseconds
IsExpiredMs(t, time) == t.exp # 0 /\ t.exp < time * 1000
\* decodedToken.exp && decodedToken.exp < currentTime
IsExpired(t, time) == t.exp # 0 /\ t.exp < time

\* what the request interceptor does with the access token of its render:
\* "none" forward without header, "bad" decoding threw, "expired" refresh
\* first, "fresh" attach
Shape(t, time) ==
    IF ~Truthy(t) THEN "none"
    ELSE IF jwtDecode(t).throws THEN "bad"
    ELSE IF IsExpired(jwtDecode(t), time) THEN "expired"
    ELSE "fresh"

\* session, cookies, navigation and the effects of the commit
Apply(s, c, n) ==
    /\ session' = s
    /\ cookies' = c
    /\ nav' = n
    /\ Commit(queryCount, s.isAuthenticated, 0)

\* the synchronous part of checkAuthStatus(), run by the effect on
\* [router, pathname] in a render whose state is s, at pathname p:
\* the session it sets, the navigation it issues, the flow it leaves awaiting
CheckAuthStatus(s, p, n) ==
    IF Truthy(cookies.accessToken) /\ Truthy(cookies.refreshToken) /\ cookies.email # NULL
    THEN [session |-> [s EXCEPT !.isAuthenticated = TRUE,
                                !.accessToken = cookies.accessToken,
                                !.refreshToken = cookies.refreshToken,
                                !.email = cookies.email,
                                !.firstName = cookies.firstName,
                                !.lastName = cookies.lastName],
          nav |-> n,
          chk |-> [IdleFlow EXCEPT !.pc = "me", !.rt = s.refreshToken, !.path = p],
          step |-> Step("checkAuthStatus", "/api/auth/me", cookies.accessToken, 0)]
    ELSE [session |-> [s EXCEPT !.isAuthenticated = FALSE, !.role = NULL,
                                !.isAdmin = FALSE],
          nav |-> IF p \in protectedRoutes THEN "/signin" ELSE n,
          chk |-> IdleFlow,
          step |-> Step("checkAuthStatus", NULL, NoToken, 0)]

\* variant: the push to /chat made on every pathname
CheckTailAlways == "/chat"
\* the end of checkAuthStatus() once the role is set
CheckTail == IF chk.path \in authRoutes THEN "/chat" ELSE nav

(* ------------------------------- Init ---------------------------------- *)

\* what an earlier visit may have left in the browser: no cookies, or the
\* cookies of a login whose access token has no exp claim, has expired,
\* expires at Now0, expires later, or is not a JWT
InitCookies ==
    {NoCookies} \cup
    {CookiesOf(t) : t \in {Jwt(0, 0), Jwt(0, Now0 - 1), Jwt(0, Now0), Jwt(0, Now0 + 1),
                           BadJwt(0)}}
\* what an earlier visit may have left in localStorage
InitStorage == {NoEntry, <<"1", "5">>, <<"1", "9">>, <<"a">>}

\* the state when the page starts loading, before the providers mount
InitFrom(C, S, P) ==
    /\ queryCount = 0
    /\ storage \in S
    /\ session = NoSession
    /\ cookies \in C
    /\ pathname \in P
    /\ nav = NULL
    /\ showSignupDialog = FALSE
    /\ req = IdleFlow
    /\ req2 = IdleFlow
    /\ lg = IdleFlow
    /\ chk = IdleFlow
    /\ chat = NoChat
    /\ now = Now0
    /\ exchanges = 0
    /\ mounted = FALSE
    /\ incs = 0
    /\ last = Step("init", NULL, NoToken, 0)

Init == InitFrom(InitCookies, InitStorage, Routes)

(* ------------------------- mount and navigation ------------------------ *)

\* The page is loaded (or reloaded): every cell has its initial value, what
\* was in flight is gone.  The mount effects run in order: the count is read
\* from localStorage, the persist effect writes the initial 0, the
\* QueryLimitProvider effect sees isAuthenticated = false, checkAuthStatus
\* runs; then the commit of what they set.
Mount ==
    LET c  == InitialCount(storage)
        r  == CheckAuthStatus(NoSession, pathname, NULL)
        e  == AfterCommit(0, c, FALSE, r.session.isAuthenticated, toString(0))
    IN  /\ mounted' = ~Escapes(storage = Disabled)
        /\ queryCount' = e.queryCount
        /\ storage' = Written(storage, e.storage)
        /\ incs' = IF e.queryCount = 0 THEN 0 ELSE 0 - 1
        /\ session' = r.session
        /\ nav' = r.nav
        /\ chk' = r.chk
        /\ last' = [r.step EXCEPT !.op = "mount"]
        /\ showSignupDialog' = FALSE
        /\ req' = IdleFlow
        /\ req2' = IdleFlow
        /\ lg' = IdleFlow
        /\ chat' = NoChat
        /\ UNCHANGED <<cookies, pathname, now, exchanges>>

\* a link is followed: router.push(p)
Goto(p) ==
    /\ mounted
    /\ p # pathname
    /\ nav' = p
    /\ last' = Step("goto", NULL, NoToken, 0)
    /\ UNCHANGED <<queryCount, storage, incs, session, cookies, pathname, showSignupDialog,
                   req, req2, lg, chk, chat, now, exchanges, mounted>>

\* The navigation last issued completes: pathname changes and the effect on
\* [router, pathname] runs checkAuthStatus in the new render.  The chat page
\* and its dialog state exist only at /chat.
Navigate ==
    /\ mounted
    /\ nav # NULL
    /\ nav # pathname
    /\ chk.pc = "idle"
    /\ InFlight < MaxInFlight
    /\ LET r == CheckAuthStatus(session, nav, nav)
       IN  /\ pathname' = nav
           /\ Apply(r.session, cookies, r.nav)
           /\ chk' = r.chk
           /\ last' = r.step
    /\ showSignupDialog' = FALSE
    /\ UNCHANGED <<req, req2, lg, chat, now, exchanges, mounted>>

\* time passes
Tick ==
    /\ now < MaxNow
    /\ now' = now + 1
    /\ last' = Step("tick", NULL, NoToken, 0)
    /\ UNCHANGED <<queryCount, storage, incs, session, cookies, pathname, nav,
                   showSignupDialog, req, req2, lg, chk, chat, exchanges, mounted>>

(* ---------------------- checkAuthStatus, continued --------------------- *)

\* GET /api/auth/me answered with a role
CheckMeOk(r) ==
    /\ chk.pc \in {"me", "retry"}
    /\ Apply(WithRole(session, r), cookies, CheckTail)
    /\ chk' = IdleFlow
    /\ last' = Step(IF chk.pc = "me" THEN "checkMeOk" ELSE "checkRetryOk", NULL, NoToken, 200)
    /\ UNCHANGED <<pathname, showSignupDialog, req, req2, lg, chat, now, exchanges, mounted>>

\* GET /api/auth/me failed.  On 401/403 refreshAccessToken() is called; it
\* reads the refreshToken cell of the render the effect ran in.
CheckMeFail(st) ==
    /\ chk.pc = "me"
    /\ IF Rejected(st)
       THEN IF Truthy(chk.rt)
            THEN /\ chk' = [chk EXCEPT !.pc = "refreshing"]
                 /\ last' = Step("checkMeFail", "/api/auth/refresh", NoToken, st)
                 /\ UNCHANGED <<queryCount, storage, incs, session, cookies, nav>>
            ELSE /\ Apply(logout.session, logout.cookies, logout.nav)
                 /\ chk' = IdleFlow
                 /\ last' = Step("checkMeFail", NULL, NoToken, st)
       ELSE /\ Apply(DefaultRole(session), cookies, CheckTail)
            /\ chk' = IdleFlow
            /\ last' = Step("checkMeFail", NULL, NoToken, st)
    /\ UNCHANGED <<pathname, showSignupDialog, req, req2, lg, chat, now, exchanges, mounted>>

\* the refresh exchange succeeded: the pair is stored and /api/auth/me is
\* retried with the new access token
CheckRefreshOk ==
    /\ chk.pc = "refreshing"
    /\ Apply(Refreshed(session, FreshId), RefreshedCookies(cookies, FreshId), nav)
    /\ chk' = [chk EXCEPT !.pc = "retry"]
    /\ last' = Step("checkRefreshOk", "/api/auth/me", Jwt(FreshId, now + 1), 200)
    /\ UNCHANGED <<pathname, showSignupDialog, req, req2, lg, chat, now, exchanges, mounted>>

\* the refresh exchange failed: refreshAccessToken() returns null (after
\* logout() on 401/403) and checkAuthStatus calls logout()
CheckRefreshFail(st) ==
    /\ chk.pc = "refreshing"
    /\ Apply(logout.session, logout.cookies, logout.nav)
    /\ chk' = IdleFlow
    /\ last' = Step("checkRefreshFail", NULL, NoToken, st)
    /\ UNCHANGED <<pathname, showSignupDialog, req, req2, lg, chat, now, exchanges, mounted>>

\* the retried /api/auth/me failed: clearAuthAndRedirect()
CheckRetryFail(st) ==
    /\ chk.pc = "retry"
    /\ Apply(logout.session, logout.cookies, logout.nav)
    /\ chk' = IdleFlow
    /\ last' = Step("checkRetryFail", NULL, NoToken, st)
    /\ UNCHANGED <<pathname, showSignupDialog, req, req2, lg, chat, now, exchanges, mounted>>

(* ------------------------------- login --------------------------------- *)

\* what login() does once the role is set: router.push('/chat')
LoginTail == "/chat"

\* login(accessToken, refreshToken, email, firstName, lastName) with the pair
\* the server has just issued: cookies, cells, then GET /api/auth/me with a
\* client built around the access token passed in.  refreshAccessToken, if
\* login comes to call it, is the one of the render login was taken from.
Login ==
    /\ mounted
    /\ lg.pc = "idle"
    /\ InFlight < MaxInFlight
    /\ LET at == Jwt(FreshId, now + 1)
       IN  /\ Apply([session EXCEPT !.isAuthenticated = TRUE,
                                    !.accessToken = at,
                                    !.refreshToken = Opaque(FreshId),
                                    !.email = "a@x",
                                    !.firstName = "A",
                                    !.lastName = "L"],
                    CookiesOf(at), nav)
           /\ lg' = [IdleFlow EXCEPT !.pc = "me", !.rt = session.refreshToken,
                                     !.path = pathname]
           /\ last' = Step("login", "/api/auth/me", at, 0)
    /\ UNCHANGED <<pathname, showSignupDialog, req, req2, chk, chat, now, exchanges, mounted>>

LoginMeOk(r) ==
    /\ lg.pc \in {"me", "retry"}
    /\ Apply(WithRole(session, r), cookies, LoginTail)
    /\ lg' = IdleFlow
    /\ last' = Step(IF lg.pc = "me" THEN "loginMeOk" ELSE "loginRetryOk", NULL, NoToken, 200)
    /\ UNCHANGED <<pathname, showSignupDialog, req, req2, chk, chat, now, exchanges, mounted>>

LoginMeFail(st) ==
    /\ lg.pc = "me"
    /\ IF Rejected(st) /\ Truthy(lg.rt)
       THEN /\ lg' = [lg EXCEPT !.pc = "refreshing"]
            /\ last' = Step("loginMeFail", "/api/auth/refresh", NoToken, st)
            /\ UNCHANGED <<queryCount, storage, incs, session, cookies, nav>>
       ELSE /\ Apply(DefaultRole(session), cookies, LoginTail)
            /\ lg' = IdleFlow
            /\ last' = Step("loginMeFail", NULL, NoToken, st)
    /\ UNCHANGED <<pathname, showSignupDialog, req, req2, chk, chat, now, exchanges, mounted>>

LoginRefreshOk ==
    /\ lg.pc = "refreshing"
    /\ Apply(Refreshed(session, FreshId), RefreshedCookies(cookies, FreshId), nav)
    /\ lg' = [lg EXCEPT !.pc = "retry"]
    /\ last' = Step("loginRefreshOk", "/api/auth/me", Jwt(FreshId, now + 1), 200)
    /\ UNCHANGED <<pathname, showSignupDialog, req, req2, chk, chat, now, exchanges, mounted>>

\* what login() leaves after a failed refresh exchange: refreshAccessToken()
\* has called logout() on 401/403 and returned null; login then sets the
\* default role and goes on to router.push('/chat')
LoginAfterFailedRefresh(st) ==
    LET r == RefreshFailed(st)
    IN  [session |-> DefaultRole(r.session), cookies |-> r.cookies, nav |-> LoginTail]

LoginRefreshFail(st) ==
    /\ lg.pc = "refreshing"
    /\ LET r == LoginAfterFailedRefresh(st)
       IN  Apply(r.session, r.cookies, r.nav)
    /\ lg' = IdleFlow
    /\ last' = Step("loginRefreshFail", NULL, NoToken, st)
    /\ UNCHANGED <<pathname, showSignupDialog, req, req2, chk, chat, now, exchanges, mounted>>

\* the retried /api/auth/me failed: clearAuthAndRedirect() and return
LoginRetryFail(st) ==
    /\ lg.pc = "retry"
    /\ Apply(logout.session, logout.cookies, logout.nav)
    /\ lg' = IdleFlow
    /\ last' = Step("loginRetryFail", NULL, NoToken, st)
    /\ UNCHANGED <<pathname, showSignupDialog, req, req2, chk, chat, now, exchanges, mounted>>

\* the user logs out
Logout ==
    /\ mounted
    /\ Apply(logout.session, logout.cookies, logout.nav)
    /\ last' = Step("logout", NULL, NoToken, 0)
    /\ UNCHANGED <<pathname, showSignupDialog, req, req2, lg, chk, chat, now, exchanges, mounted>>

(* ------------------------- request interceptor ------------------------- *)

\* variant: a token that cannot be decoded handled as an expired one
InterceptDecodeAsExpired(at, rt, t) ==
    LET sh == Shape(at, t)
    IN  CASE sh = "none"  -> [act |-> "forward", hdr |-> NoToken]
          [] sh = "fresh" -> [act |-> "forward", hdr |-> at]
          [] OTHER        -> [act |-> IF Truthy(rt) THEN "refresh" ELSE "cancel",
                              hdr |-> NoToken]
\* What the interceptor of a render with access token at and refresh token
\* rt decides at time t.  "forward": the request goes out with hdr attached
\* (NoToken: no header); "refresh": refreshAccessToken() is awaited, an
\* exchange is made; "cancel": logout() and axios.Cancel.  A token that
\* cannot be decoded throws into the catch block; an expired token with no
\* refresh token makes refreshAccessToken() return null at once.
Intercept(at, rt, t) ==
    LET sh == Shape(at, t)
    IN  CASE sh = "none"    -> [act |-> "forward", hdr |-> NoToken]
          [] sh = "fresh"   -> [act |-> "forward", hdr |-> at]
          [] sh = "bad"     -> [act |-> "cancel", hdr |-> NoToken]
          [] sh = "expired" -> [act |-> IF Truthy(rt) THEN "refresh" ELSE "cancel",
                                hdr |-> NoToken]

\* variant: the request cancelled without logout()
CancelRequestOnly(r) == r
\* the interceptor on a null from refreshAccessToken(), r what that call
\* left: logout() and axios.Cancel
CancelRequest(r) == logout

\* variant: the header built from the accessToken cell of the render
ForwardedFromState(newAccessToken, at) == at
\* the bearer of a request forwarded after its refresh exchange, at the
\* accessToken cell of the interceptor's render: Bearer ${newAccessToken}
Forwarded(newAccessToken, at) == newAccessToken

\* A component sends a request through axiosInstance while fewer than limit
\* requests are awaited; cur is the flow of the request, nxt its next value.
\* The interceptor is the one of the current render: it reads that render's
\* accessToken, and refreshAccessToken reads that render's refreshToken.
RequestOn(cur, nxt, limit) ==
    /\ mounted
    /\ cur.pc = "idle"
    /\ InFlight < limit
    /\ LET at == session.accessToken
           sh == Shape(at, now)
           d  == Intercept(at, session.refreshToken, now)
       IN  CASE d.act = "forward" ->
                  /\ nxt = IdleFlow
                  /\ last' = ReqStep("request", "/api", d.hdr, 0, sh, 0)
                  /\ UNCHANGED <<queryCount, storage, incs, session, cookies, nav>>
             [] d.act = "refresh" ->
                  /\ nxt = [IdleFlow EXCEPT !.pc = "refreshing", !.shape = sh,
                                            !.rt = session.refreshToken,
                                            !.refreshes = 1]
                  /\ last' = ReqStep("request", "/api/auth/refresh", NoToken, 0, sh, 1)
                  /\ UNCHANGED <<queryCount, storage, incs, session, cookies, nav>>
             [] d.act = "cancel" ->
                  /\ nxt = IdleFlow
                  /\ last' = ReqStep("request", NULL, NoToken, 0, sh, 0)
                  /\ Apply(logout.session, logout.cookies, logout.nav)
    /\ UNCHANGED <<pathname, showSignupDialog, lg, chk, chat, now, exchanges, mounted>>

\* the refresh exchange of the request cur succeeded: the pair is stored and
\* the request goes out with the new access token
RequestRefreshOkOn(cur, nxt) ==
    /\ cur.pc = "refreshing"
    /\ Apply(Refreshed(session, FreshId), RefreshedCookies(cookies, FreshId), nav)
    /\ nxt = IdleFlow
    /\ last' = ReqStep("requestRefreshOk", "/api",
                       Forwarded(Jwt(FreshId, now + 1), session.accessToken), 200,
                       cur.shape, cur.refreshes)
    /\ UNCHANGED <<pathname, showSignupDialog, lg, chk, chat, now, exchanges, mounted>>

\* the refresh exchange of the request cur failed: refreshAccessToken()
\* returns null, the interceptor calls logout() and cancels the request
RequestRefreshFailOn(cur, nxt, st) ==
    /\ cur.pc = "refreshing"
    /\ LET r == CancelRequest(RefreshFailed(st))
       IN  Apply(r.session, r.cookies, r.nav)
    /\ nxt = IdleFlow
    /\ last' = ReqStep("requestRefreshFail", NULL, NoToken, st, cur.shape, cur.refreshes)
    /\ UNCHANGED <<pathname, showSignupDialog, lg, chk, chat, now, exchanges, mounted>>

\* a request through axiosInstance, and the outcomes of its refresh exchange
Request == RequestOn(req, req', MaxInFlight) /\ UNCHANGED req2
RequestRefreshOk == RequestRefreshOkOn(req, req') /\ UNCHANGED req2
RequestRefreshFail(st) == RequestRefreshFailOn(req, req', st) /\ UNCHANGED req2

\* a second request through axiosInstance made while the first awaits its
\* refresh exchange, and the outcomes of its own exchange
ConcurrentRequest ==
    /\ req.pc = "refreshing"
    /\ RequestOn(req2, req2', MaxInFlight + 1)
    /\ UNCHANGED req
ConcurrentRefreshOk == RequestRefreshOkOn(req2, req2') /\ UNCHANGED req
ConcurrentRefreshFail(st) == RequestRefreshFailOn(req2, req2', st) /\ UNCHANGED req

(* ------------------------------ chat page ------------------------------ *)

\* what SignupPromptDialog is rendered with
SignupPromptDialog == [open |-> showSignupDialog, queryCount |-> queryCount]

\* the gate of handleChatSubmit in a render with isAuthenticated a and
\* canMakeQuery c: TRUE when the submission is blocked
Blocked(a, c) == ~a /\ ~c

\* useChat's request: the guest endpoint without header, or the chat
\* endpoint with the accessToken of the render as bearer
ChatRequest(s) ==
    IF s.isAuthenticated
    THEN [path |-> "/api/chat", bearer |-> s.accessToken]
    ELSE [path |-> "/api/chat/guest", bearer |-> NoToken]

\* useChat starts an exchange for the caller op, while fewer than limit
\* exchanges are under way
Transport(op, limit) ==
    /\ exchanges < MaxExchanges
    /\ InFlight < limit
    /\ exchanges' = exchanges + 1
    /\ chat' = IF session.isAuthenticated
               THEN [chat EXCEPT !.auth = @ + 1]
               ELSE [chat EXCEPT !.guest = @ + 1]
    /\ last' = LET q == ChatRequest(session)
               IN  Step(op, q.path, q.bearer, 0)
    /\ UNCHANGED showSignupDialog

\* handleChatSubmit(e), while fewer than limit exchanges are under way
HandleChatSubmitOn(limit) ==
    /\ mounted
    /\ pathname = "/chat"
    /\ \/ /\ Blocked(session.isAuthenticated, canMakeQuery)
          /\ showSignupDialog' = TRUE
          /\ last' = Step("handleChatSubmit", NULL, NoToken, 0)
          /\ UNCHANGED <<chat, exchanges>>
       \/ /\ ~Blocked(session.isAuthenticated, canMakeQuery)
          /\ Transport("handleChatSubmit", limit)
    /\ UNCHANGED <<queryCount, storage, incs, session, cookies, pathname, nav,
                   req, req2, lg, chk, now, mounted>>

\* the form is submitted: handleChatSubmit(e)
HandleChatSubmit == HandleChatSubmitOn(MaxInFlight)

\* the form is submitted while an earlier exchange is still streaming:
\* handleChatSubmit does not look at isLoading
SubmitWhileStreaming ==
    /\ chat.guest + chat.auth > 0
    /\ HandleChatSubmitOn(MaxInFlight + 1)

\* append(message): the prop of ChatMessages and of ChatInput, and the call
\* in updateMessageContent
AppendMessage ==
    /\ mounted
    /\ pathname = "/chat"
    /\ Transport("append", MaxInFlight)
    /\ UNCHANGED <<queryCount, storage, incs, session, cookies, pathname, nav,
                   req, req2, lg, chk, now, mounted>>

\* reload(): the prop of ChatMessages, which asks again for the answer to
\* the last message
Reload ==
    /\ mounted
    /\ pathname = "/chat"
    /\ exchanges > 0
    /\ Transport("reload", MaxInFlight)
    /\ UNCHANGED <<queryCount, storage, incs, session, cookies, pathname, nav,
                   req, req2, lg, chk, now, mounted>>

\* a chunk of a streamed response arrives: useChat appends it to the last
\* message, nothing that is modelled changes
ChatChunk ==
    /\ chat.guest + chat.auth > 0
    /\ last' = Step("chunk", NULL, NoToken, 200)
    /\ UNCHANGED <<queryCount, storage, incs, session, cookies, pathname, nav, showSignupDialog,
                   req, req2, lg, chk, chat, now, exchanges, mounted>>

\* variant: the test of isAuthenticated without its negation
OnFinishAuthOnly(a) == IF a THEN 1 ELSE 0
\* onFinish in a render with isAuthenticated a: the calls of
\* incrementCount() it makes
OnFinish(a) == IF ~a THEN 1 ELSE 0

\* A streamed response completes.  g: the exchange was submitted by a guest.
\* useChat calls the onFinish either of the render that submitted or of the
\* latest render, depending on its version.
ChatFinish(g, latest) ==
    /\ IF g THEN chat.guest > 0 ELSE chat.auth > 0
    /\ chat' = IF g THEN [chat EXCEPT !.guest = @ - 1] ELSE [chat EXCEPT !.auth = @ - 1]
    /\ LET a == IF latest THEN session.isAuthenticated ELSE ~g
           n == OnFinish(a)
       IN  Commit(IF n = 1 THEN incrementCount(queryCount) ELSE queryCount,
                  session.isAuthenticated, n)
    /\ last' = Step(IF g THEN "finishGuest" ELSE "finishAuth", NULL, NoToken, 200)
    /\ UNCHANGED <<session, cookies, pathname, nav, showSignupDialog,
                   req, req2, lg, chk, now, exchanges, mounted>>

\* An exchange fails: onError.  notAuth: the body says 'Not authenticated',
\* which sends the user to /signin; anything else is a toast.
ChatError(g, notAuth) ==
    /\ IF g THEN chat.guest > 0 ELSE chat.auth > 0
    /\ chat' = IF g THEN [chat EXCEPT !.guest = @ - 1] ELSE [chat EXCEPT !.auth = @ - 1]
    /\ nav' = IF notAuth THEN "/signin" ELSE nav
    /\ last' = Step(IF g THEN "errorGuest" ELSE "errorAuth", NULL, NoToken,
                    IF notAuth THEN 401 ELSE 500)
    /\ UNCHANGED <<queryCount, storage, incs, session, cookies, pathname, showSignupDialog,
                   req, req2, lg, chk, now, exchanges, mounted>>

\* the dialog is dismissed: onOpenChange(false)
CloseDialog ==
    /\ showSignupDialog
    /\ showSignupDialog' = FALSE
    /\ last' = Step("closeDialog", NULL, NoToken, 0)
    /\ UNCHANGED <<queryCount, storage, incs, session, cookies, pathname, nav,
                   req, req2, lg, chk, chat, now, exchanges, mounted>>

(* ----------------------- the hook, called directly --------------------- *)

\* incrementCount() called by a consumer of the context
HookIncrement ==
    /\ mounted
    /\ incs < MaxIncrements
    /\ queryCount < MaxIncrements
    /\ Commit(incrementCount(queryCount), session.isAuthenticated, 1)
    /\ mounted' = ~Escapes(storage = Disabled)
    /\ last' = Step("incrementCount", NULL, NoToken, 0)
    /\ UNCHANGED <<session, cookies, pathname, nav, showSignupDialog,
                   req, req2, lg, chk, chat, now, exchanges>>

\* resetCount() called by a consumer of the context
HookReset ==
    /\ mounted
    /\ LET r == resetCount(queryCount)
       IN  /\ queryCount' = r.queryCount
           /\ storage' = Written(storage, r.storage)
           /\ incs' = 0
    /\ mounted' = ~Escapes(storage = Disabled)
    /\ last' = Step("resetCount", NULL, NoToken, 0)
    /\ UNCHANGED <<session, cookies, pathname, nav, showSignupDialog,
                   req, req2, lg, chk, chat, now, exchanges>>

\* the visitor clears the site's localStorage
ClearStorage ==
    /\ mounted
    /\ storage \notin {NoEntry, Disabled}
    /\ storage' = NoEntry
    /\ last' = Step("clearStorage", NULL, NoToken, 0)
    /\ UNCHANGED <<queryCount, incs, session, cookies, pathname, nav, showSignupDialog,
                   req, req2, lg, chk, chat, now, exchanges, mounted>>

\* what another tab of the same origin may leave under the key
OtherTabWrites == {NoEntry} \cup {toString(n) : n \in 0..MaxIncrements}

\* another tab writes or removes the entry
OtherTab(v) ==
    /\ mounted
    /\ storage # Disabled
    /\ v # storage
    /\ storage' = v
    /\ queryCount' = OnStorageEvent(queryCount, v)
    /\ last' = Step("otherTab", NULL, NoToken, 0)
    /\ UNCHANGED <<incs, session, cookies, pathname, nav, showSignupDialog,
                   req, req2, lg, chk, chat, now, exchanges, mounted>>

\* the cookies reach the end of their seven days
CookiesExpire ==
    /\ mounted
    /\ cookies # NoCookies
    /\ cookies' = NoCookies
    /\ last' = Step("cookiesExpire", NULL, NoToken, 0)
    /\ UNCHANGED <<queryCount, storage, incs, session, pathname, nav, showSignupDialog,
                   req, req2, lg, chk, chat, now, exchanges, mounted>>

(* ------------------------------- Next ---------------------------------- *)

\* the session manager: mount, navigation, checkAuthStatus, login, logout
NextManager ==
    \/ Mount
    \/ Navigate
    \/ \E r \in RoleField : CheckMeOk(r)
    \/ \E st \in FailStatus : CheckMeFail(st)
    \/ CheckRefreshOk
    \/ \E st \in FailStatus : CheckRefreshFail(st)
    \/ \E st \in FailStatus : CheckRetryFail(st)
    \/ Login
    \/ \E r \in RoleField : LoginMeOk(r)
    \/ \E st \in FailStatus : LoginMeFail(st)
    \/ LoginRefreshOk
    \/ \E st \in FailStatus : LoginRefreshFail(st)
    \/ \E st \in FailStatus : LoginRetryFail(st)
    \/ Logout

\* the user follows links, time passes
NextEnvironment ==
    \/ \E p \in Routes : Goto(p)
    \/ Tick

\* requests through axiosInstance
NextInterceptor ==
    \/ Request
    \/ RequestRefreshOk
    \/ \E st \in FailStatus : RequestRefreshFail(st)

\* the chat page
NextChat ==
    \/ HandleChatSubmit
    \/ ChatChunk
    \/ \E g \in BOOLEAN, latest \in BOOLEAN : ChatFinish(g, latest)
    \/ \E g \in BOOLEAN, notAuth \in BOOLEAN : ChatError(g, notAuth)
    \/ CloseDialog

\* the hook driven through its interface
NextHook ==
    \/ Mount
    \/ HookIncrement
    \/ HookReset
    \/ ClearStorage
    \/ \E v \in OtherTabWrites : OtherTab(v)

\* a second request through axiosInstance
NextConcurrent ==
    \/ ConcurrentRequest
    \/ ConcurrentRefreshOk
    \/ \E st \in FailStatus : ConcurrentRefreshFail(st)

Next == NextManager \/ NextEnvironment \/ NextInterceptor \/ NextChat

\* the whole client
Spec == Init /\ [][Next]_vars

\* The session manager and the interceptor, the chat page not in use: the
\* chat page reads the session and never writes it.
InitAuth == InitFrom(InitCookies, {NoEntry}, Routes)
NextAuth == NextManager \/ NextEnvironment \/ NextInterceptor
SpecAuth == InitAuth /\ [][NextAuth]_vars

\* Requests through the interceptor, two at a time, for a visitor whose
\* cookies hold a pair whose access token has expired: the session is read
\* from the cookies, the user may log out, and time passes.
InitRefresh == InitFrom({CookiesOf(Jwt(0, Now0 - 1))}, {NoEntry}, {"/"})
NextRefresh ==
    \/ Mount
    \/ \E r \in RoleField : CheckMeOk(r)
    \/ \E st \in FailStatus : CheckMeFail(st)
    \/ Logout
    \/ Tick
    \/ NextInterceptor
    \/ NextConcurrent
SpecRefresh == InitRefresh /\ [][NextRefresh]_vars

\* the session manager and the interceptor while the cookies may expire
SpecExpiry == InitAuth /\ [][NextAuth \/ CookiesExpire]_vars

\* The chat page and the query limit under every change that the session
\* manager makes to the session, for a visitor who stays on the chat page
\* unless the client sends them away, with the clock at Now0.  The cookies
\* are absent, of a token that has expired or of one that has not.
InitChat ==
    InitFrom({NoCookies, CookiesOf(Jwt(0, Now0 - 1)), CookiesOf(Jwt(0, Now0 + 1))},
             InitStorage, {"/chat"})
NextChatPage == NextManager \/ NextChat
SpecChat == InitChat /\ [][NextChatPage]_vars

\* the chat page with every way of sending that it hands to its children
NextSend == NextChatPage \/ AppendMessage \/ Reload
SpecSend == InitChat /\ [][NextSend]_vars

\* the chat page when the form may be submitted during a response
NextStream == NextChatPage \/ SubmitWhileStreaming
SpecStream == InitChat /\ [][NextStream]_vars

\* useQueryLimit alone, for a guest: mounted from what localStorage holds,
\* then incremented and reset through its interface
InitHookStorage ==
    {NoEntry, <<>>, <<"0">>, <<"7">>, <<"2", "0">>, <<"2", "1">>, <<"a">>,
     <<"-", "1">>, <<"7", "x">>, Disabled}
InitHook == InitFrom({NoCookies}, InitHookStorage, {"/"})
SpecHook == InitHook /\ [][NextHook]_vars

(* ------------------------------ properties ----------------------------- *)

\* C1: when a guest whose queryCount is at least QUERY_LIMIT submits the
\* chat form, no request leaves the client, and the signup dialog is open
\* and rendered with the current queryCount.
C1_BlockedSubmitOpensPrompt ==
    (last.op = "handleChatSubmit" /\ ~session.isAuthenticated /\ queryCount >= QUERY_LIMIT)
        => /\ last.path = NULL
           /\ SignupPromptDialog.open
           /\ SignupPromptDialog.queryCount = queryCount
C1_Witness ==
    /\ last.op = "handleChatSubmit"
    /\ ~session.isAuthenticated
    /\ queryCount = QUERY_LIMIT
    /\ last.path = NULL
    /\ showSignupDialog

\* C2: the completion of an exchange of a guest who is still a guest raises
\* queryCount by exactly one; a chunk and a failed exchange leave it as it
\* is.
C2_CountPerCompletedGuestExchange ==
    [][ /\ (last'.op = "finishGuest" /\ ~session.isAuthenticated)
            => queryCount' = queryCount + 1
        /\ last'.op \in {"chunk", "errorGuest", "errorAuth"}
            => queryCount' = queryCount /\ storage' = storage ]_vars
C2_Witness ==
    /\ last.op = "finishGuest"
    /\ ~session.isAuthenticated
    /\ queryCount = QUERY_LIMIT
    /\ storage = <<"2", "0">>
    /\ ~canMakeQuery

\* C3: n calls of incrementCount() after the count was 0 by initialisation
\* or reset leave queryCount = n, remainingQueries = max(0, QUERY_LIMIT - n),
\* hasExceededLimit = (n >= QUERY_LIMIT), canMakeQuery = (n < QUERY_LIMIT).
C3_GettersAfterIncrements ==
    incs >= 0
        => /\ queryCount = incs
           /\ remainingQueries = (IF incs < QUERY_LIMIT THEN QUERY_LIMIT - incs ELSE 0)
           /\ hasExceededLimit = (incs >= QUERY_LIMIT)
           /\ canMakeQuery = (incs < QUERY_LIMIT)
C3_Witness ==
    /\ last.op = "incrementCount"
    /\ incs = QUERY_LIMIT + 1
    /\ remainingQueries = 0
    /\ hasExceededLimit

\* C4: a step in which isAuthenticated goes from false to true leaves
\* queryCount 0 and canMakeQuery true.
C4_ResetOnAuthentication ==
    [][ (~session.isAuthenticated /\ session'.isAuthenticated)
            => queryCount' = 0 /\ canMakeQuery' ]_vars
C4_Witness ==
    /\ last.op = "login"
    /\ session.isAuthenticated
    /\ queryCount = 0
    /\ storage = <<"0">>

\* C5: a request through the interceptor whose access token has expired
\* makes exactly one refresh exchange before it is sent, and is sent with
\* the new token; when the exchange fails, whatever the reason, the request
\* is not sent and the session is logged out.
C5_ExpiredTokenRefreshedOnce ==
    last.shape = "expired"
        => /\ last.op = "request"
               => last.path = "/api/auth/refresh" /\ last.refreshes = 1
           /\ last.op = "requestRefreshOk"
               => /\ last.path = "/api"
                  /\ last.refreshes = 1
                  /\ last.bearer = session.accessToken
                  /\ ~IsExpired(last.bearer, now)
           /\ last.op = "requestRefreshFail"
               => /\ last.path = NULL
                  /\ last.refreshes = 1
                  /\ session = NoSession
                  /\ cookies = NoCookies
                  /\ nav = "/signin"
C5_Witness ==
    /\ last.op = "requestRefreshFail"
    /\ last.shape = "expired"
    /\ last.status = 500
    /\ session = NoSession

\* C6: a request through the interceptor while the access token's expiry is
\* in the future is sent with that token as bearer, makes no refresh
\* exchange, and leaves session and cookies as they are.
C6_FreshTokenAttached ==
    [][ (last'.op = "request" /\ session.accessToken.fmt = "jwt"
                              /\ session.accessToken.exp > now)
            => /\ last'.path = "/api"
               /\ last'.bearer = session.accessToken
               /\ last'.refreshes = 0
               /\ req'.pc = "idle"
               /\ session' = session
               /\ cookies' = cookies ]_vars
C6_Witness ==
    /\ last.op = "request"
    /\ last.path = "/api"
    /\ last.bearer.fmt = "jwt"
    /\ last.bearer.exp > now
    /\ last.bearer = session.accessToken

\* C7: every access token that the interceptor attaches has an expiry
\* strictly greater than the time at which it is attached.
C7_AttachedExpiryInFuture ==
    (last.op \in {"request", "requestRefreshOk"} /\ last.path = "/api"
                                                 /\ Truthy(last.bearer))
        => last.bearer.exp > now

\* C8: no request leaves the client with an expired access token attached,
\* through the interceptor, on the chat request, or on a role lookup.
C8_NoExpiredBearer ==
    (last.path # NULL /\ Truthy(last.bearer)) => ~IsExpired(last.bearer, now)

\* C9 as stated: a request whose access token cannot be decoded is handled
\* like one whose token has expired, with one refresh exchange.
C9_MalformedRefreshed ==
    (last.op = "request" /\ last.shape = "bad")
        => last.path = "/api/auth/refresh" /\ last.refreshes = 1

\* C9: a request whose access token cannot be decoded makes no refresh
\* exchange: it is cancelled and the session is logged out at once.
C9_MalformedLoggedOut ==
    (last.op = "request" /\ last.shape = "bad")
        => /\ last.path = NULL
           /\ last.refreshes = 0
           /\ req.pc = "idle"
           /\ session = NoSession
           /\ cookies = NoCookies
           /\ nav = "/signin"
C9_Witness ==
    /\ last.op = "request"
    /\ last.shape = "bad"
    /\ cookies = NoCookies

\* C10: after a refresh exchange rejected with 401 or 403, on the
\* interceptor, checkAuthStatus and login paths alike, the session is fully
\* logged out: no cookie, every cell cleared, the last navigation /signin.
C10_RejectedRefreshLogsOut ==
    (last.op \in {"requestRefreshFail", "checkRefreshFail", "loginRefreshFail"}
         /\ Rejected(last.status))
        => /\ session = NoSession
           /\ cookies = NoCookies
           /\ nav = "/signin"

\* C11: logout(), from any session state and whatever is in flight, leaves
\* no cookie and every cell of the session cleared; a second logout() right
\* after the first changes neither cookies nor session.
C11_LogoutClearsAndIsIdempotent ==
    [][ last'.op = "logout"
            => /\ session' = NoSession
               /\ cookies' = NoCookies
               /\ nav' = "/signin"
               /\ last.op = "logout" => (session' = session /\ cookies' = cookies) ]_vars
C11_Witness ==
    /\ last.op = "logout"
    /\ chk.pc = "refreshing" \/ lg.pc = "me"
    /\ session = NoSession
    /\ cookies = NoCookies

\* C12: after resetCount(), effects included, queryCount is 0, canMakeQuery
\* is true and localStorage has no entry under the key.
C12_ResetLeavesNoEntry ==
    last.op = "resetCount"
        => queryCount = 0 /\ canMakeQuery /\ storage = NoEntry

\* C13: a second resetCount() right after a first one changes neither
\* queryCount nor the localStorage entry.
C13_ResetIdempotent ==
    [][ (last.op = "resetCount" /\ last'.op = "resetCount")
            => queryCount' = queryCount /\ storage' = storage ]_vars

\* C14: loading the page with the decimal form of n >= 0 under the key ends
\* with queryCount = n and the entry holding n again; with no entry, an
\* empty one, one that is not a number or a negative one, queryCount is 0.
C14_CountSurvivesReload ==
    [][ last'.op = "mount"
            => /\ \A n \in 0..(MaxIncrements + 1) :
                    storage = toString(n) => queryCount' = n /\ storage' = toString(n)
               /\ storage \in {NoEntry, <<>>, <<"a">>, <<"-", "1">>}
                    => queryCount' = 0 ]_vars
C14_Witness ==
    /\ last.op = "mount"
    /\ queryCount = 7
    /\ storage = <<"7">>
    /\ incs = 0 - 1

\* C15: the response of a refresh exchange that arrives after logout() has
\* cleared session and cookies puts no token back, in the cells or in the
\* cookies.
C15_StaleRefreshIgnored ==
    [][ (last'.op \in {"checkRefreshOk", "loginRefreshOk", "requestRefreshOk"}
             /\ session = NoSession /\ cookies = NoCookies)
            => /\ ~Truthy(session'.accessToken)
               /\ ~Truthy(session'.refreshToken)
               /\ ~Truthy(cookies'.accessToken)
               /\ ~Truthy(cookies'.refreshToken) ]_vars

\* C16: the response of a role lookup that arrives after logout() has
\* cleared the session changes neither role nor isAdmin.
C16_StaleRoleIgnored ==
    [][ (last'.op \in {"checkMeOk", "checkRetryOk", "loginMeOk", "loginRetryOk"}
             /\ ~session.isAuthenticated)
            => session'.role = session.role /\ session'.isAdmin = session.isAdmin ]_vars

\* C17 as stated: when the refresh exchange fails, the pair in the cells and
\* in the cookies is what it was before the call.
C17_FailedRefreshKeepsPair ==
    [][ last'.op = "loginRefreshFail"
            => /\ session'.accessToken = session.accessToken
               /\ session'.refreshToken = session.refreshToken
               /\ cookies'.accessToken = cookies.accessToken
               /\ cookies'.refreshToken = cookies.refreshToken ]_vars

\* C17: after a refresh exchange, cells and cookies hold the new pair of the
\* one response; after a failed one they hold the pair as it was, or, when
\* the exchange was rejected with 401/403, no token at all.  In every state
\* the access and refresh token held together are of one pair.
C17_PairReplacedTogether ==
    [][ /\ last'.op \in {"checkRefreshOk", "loginRefreshOk", "requestRefreshOk"}
            => /\ last'.bearer.id \notin {session.accessToken.id, session.refreshToken.id}
               /\ session'.accessToken = last'.bearer
               /\ session'.refreshToken = Opaque(last'.bearer.id)
               /\ cookies'.accessToken = last'.bearer
               /\ cookies'.refreshToken = Opaque(last'.bearer.id)
        /\ last'.op = "loginRefreshFail"
            => IF Rejected(last'.status)
               THEN /\ ~Truthy(session'.accessToken) /\ ~Truthy(session'.refreshToken)
                    /\ ~Truthy(cookies'.accessToken) /\ ~Truthy(cookies'.refreshToken)
               ELSE /\ session'.accessToken = session.accessToken
                    /\ session'.refreshToken = session.refreshToken
                    /\ cookies'.accessToken = cookies.accessToken
                    /\ cookies'.refreshToken = cookies.refreshToken
        /\ session'.accessToken.id = session'.refreshToken.id
        /\ Truthy(session'.accessToken) = Truthy(session'.refreshToken)
        /\ cookies'.accessToken.id = cookies'.refreshToken.id
        /\ Truthy(cookies'.accessToken) = Truthy(cookies'.refreshToken) ]_vars
C17_Witness ==
    /\ last.op = "loginRefreshFail"
    /\ last.status = 500
    /\ Truthy(session.accessToken)
    /\ session.refreshToken = Opaque(session.accessToken.id)
    /\ cookies.accessToken = session.accessToken

\* C18: when the role lookup of checkAuthStatus or of login is rejected with
\* 401/403, a refresh exchange is issued.
C18_RejectedLookupRefreshes ==
    (last.op \in {"checkMeFail", "loginMeFail"} /\ Rejected(last.status))
        => last.path = "/api/auth/refresh"

\* C19: when the role lookup of a session that is authenticated fails with
\* anything but 401/403, the session stays authenticated with role "user"
\* and isAdmin false; tokens and cookies stay, no refresh exchange is made.
C19_OtherFailureDefaultsRole ==
    [][ (last'.op \in {"checkMeFail", "loginMeFail"} /\ ~Rejected(last'.status)
             /\ session.isAuthenticated)
            => /\ session' = [session EXCEPT !.role = "user", !.isAdmin = FALSE]
               /\ session'.isAuthenticated
               /\ cookies' = cookies
               /\ last'.path = NULL
               /\ last'.op = "checkMeFail" => chk'.pc = "idle"
               /\ last'.op = "loginMeFail" => lg'.pc = "idle" ]_vars
C19_Witness ==
    /\ last.op = "checkMeFail"
    /\ last.status = 500
    /\ session.isAuthenticated
    /\ session.role = "user"
    /\ ~session.isAdmin
    /\ Truthy(cookies.accessToken)

\* C20 as stated: a check that finds the cookie triple ends with a push to
\* /chat on an auth route and with no push elsewhere; one that does not find
\* it pushes /signin on a protected route.
C20_GuardByCookiesAlone ==
    [][ /\ (last'.op \in {"mount", "checkAuthStatus"}
              /\ ~(Truthy(cookies.accessToken) /\ Truthy(cookies.refreshToken)
                     /\ cookies.email # NULL)
              /\ pathname' \in protectedRoutes)
            => nav' = "/signin"
        /\ (last'.op \in {"checkMeOk", "checkRetryOk", "checkMeFail",
                          "checkRefreshFail", "checkRetryFail"}
              /\ chk'.pc = "idle"
              /\ Truthy(cookies.accessToken) /\ Truthy(cookies.refreshToken)
              /\ cookies.email # NULL)
            => nav' = IF chk.path \in authRoutes THEN "/chat" ELSE nav ]_vars

\* C20: a check that does not find the cookie triple pushes /signin on a
\* protected route and nothing elsewhere; one that finds it pushes nothing
\* until the role lookup is over, then /chat on an auth route and nothing
\* elsewhere when a role was set, /signin when the check ended in logout().
C20_GuardAfterRoleLookup ==
    [][ /\ last'.op \in {"mount", "checkAuthStatus"}
            => LET kept == IF last'.op = "mount" THEN NULL ELSE nav
               IN  IF Truthy(cookies.accessToken) /\ Truthy(cookies.refreshToken)
                        /\ cookies.email # NULL
                   THEN nav' = kept /\ chk'.pc = "me"
                   ELSE nav' = IF pathname' \in protectedRoutes THEN "/signin" ELSE kept
        /\ (last'.op \in {"checkMeOk", "checkRetryOk"}
              \/ (last'.op = "checkMeFail" /\ ~Rejected(last'.status)))
            => nav' = IF chk.path \in authRoutes THEN "/chat" ELSE nav
        /\ (last'.op \in {"checkRefreshFail", "checkRetryFail"}
              \/ (last'.op = "checkMeFail" /\ Rejected(last'.status) /\ chk'.pc = "idle"))
            => nav' = "/signin" ]_vars
C20_Witness ==
    /\ last.op = "checkMeOk"
    /\ pathname = "/signin"
    /\ nav = "/chat"
    /\ session.isAuthenticated
    /\ Truthy(cookies.accessToken)

\* C22: a reload while the session is authenticated and the cookies of its
\* login are present gives an authenticated session with the same access
\* token, refresh token, email, first and last name; a reload right after
\* logout() gives an unauthenticated one with role null and isAdmin false.
C22_SessionSurvivesReload ==
    [][ /\ (last'.op = "mount" /\ session.isAuthenticated /\ Truthy(cookies.accessToken))
            => /\ session'.isAuthenticated
               /\ session'.accessToken = session.accessToken
               /\ session'.refreshToken = session.refreshToken
               /\ session'.email = session.email
               /\ session'.firstName = session.firstName
               /\ session'.lastName = session.lastName
        /\ (last'.op = "mount" /\ last.op = "logout")
            => /\ ~session'.isAuthenticated
               /\ session'.role = NULL
               /\ ~session'.isAdmin ]_vars
C22_Witness ==
    /\ last.op = "mount"
    /\ session.isAuthenticated
    /\ session.accessToken.id >= 1
    /\ session.refreshToken = Opaque(session.accessToken.id)
    /\ session.email = "a@x"
    /\ session.role = NULL

\* C23: a request made with an expired access token while another request
\* awaits its refresh exchange makes an exchange of its own; a request is
\* forwarded after exactly one exchange, with a token that no one in the
\* client held before its response; after a failed exchange the request is
\* dropped, not retried.
C23_RefreshPerRequest ==
    [][ /\ (last'.op = "request" /\ Shape(session.accessToken, now) = "expired"
              /\ (req.pc = "refreshing" \/ req2.pc = "refreshing"))
            => /\ last'.path = "/api/auth/refresh"
               /\ last'.refreshes = 1
               /\ req'.pc = "refreshing" /\ req2'.pc = "refreshing"
        /\ last'.op = "requestRefreshOk"
            => /\ last'.path = "/api"
               /\ last'.refreshes = 1
               /\ last'.bearer.fmt = "jwt"
               /\ last'.bearer.id \notin UsedIds
        /\ last'.op = "requestRefreshFail"
            => /\ last'.path = NULL
               /\ last'.refreshes = 1
               /\ Awaiting(req') + Awaiting(req2') + 1 = Awaiting(req) + Awaiting(req2)
      ]_vars
C23_Witness ==
    /\ last.op = "requestRefreshOk"
    /\ last.bearer.id = 2
    /\ now = Now0
    /\ req.pc = "idle"
    /\ req2.pc = "idle"

\* C25: in every state isAdmin = (role = "admin").
C25_IsAdminDerived == session.isAdmin = (session.role = "admin")
C25_Witness ==
    /\ last.op \in {"checkMeOk", "loginMeOk"}
    /\ session.role = "admin"
    /\ session.isAdmin

\* C26: in every state an unauthenticated session holds no access token and
\* no refresh token in memory.
C26_NoTokensWhenUnauthenticated ==
    ~session.isAuthenticated
        => ~Truthy(session.accessToken) /\ ~Truthy(session.refreshToken)

\* C30: when the response of a refresh exchange is applied after the pair
\* was replaced by another exchange made at the same time, cells and cookies
\* all hold the pair of the response applied last.
C30_LastRefreshWins ==
    [][ (last'.op = "requestRefreshOk" /\ Truthy(session.refreshToken)
           /\ \E f \in {req, req2} : f.pc = "refreshing" /\ f.rt # session.refreshToken)
            => /\ session'.accessToken = Jwt(last'.bearer.id, now + 1)
               /\ session'.refreshToken = Opaque(last'.bearer.id)
               /\ cookies'.accessToken = session'.accessToken
               /\ cookies'.refreshToken = session'.refreshToken
               /\ session'.refreshToken # session.refreshToken ]_vars
C30_Witness ==
    /\ last.op = "requestRefreshOk"
    /\ session.isAuthenticated
    /\ session.accessToken.id = 2
    /\ session.refreshToken = Opaque(2)
    /\ cookies.accessToken = session.accessToken
    /\ cookies.refreshToken = session.refreshToken
    /\ now = Now0
    /\ Awaiting(req) + Awaiting(req2) = 0

\* C21: when every access to localStorage throws, no error leaves the hook
\* (the tree stays mounted), the start-up count is 0, incrementCount() still
\* adds one, resetCount() still gives 0, and the store is as it was.
C21_StorageFailureAbsorbed ==
    [][storage = Disabled =>
        /\ storage' = Disabled
        /\ last'.op = "mount" => mounted' /\ queryCount' = 0
        /\ last'.op = "incrementCount" => mounted' /\ queryCount' = queryCount + 1
        /\ last'.op = "resetCount" => mounted' /\ queryCount' = 0]_vars
C21_Witness ==
    storage = Disabled /\ mounted /\ last.op = "incrementCount" /\ queryCount = 2

\* C24: a write or a removal of the entry by another tab or by the visitor
\* leaves this tab's queryCount and its getters as they were, and the next
\* increment of this tab overwrites the entry with its own count plus one.
C24_OtherTabNeverRead ==
    [][/\ last'.op \in {"otherTab", "clearStorage"} =>
            /\ queryCount' = queryCount
            /\ canMakeQuery' = canMakeQuery
            /\ remainingQueries' = remainingQueries
       /\ last'.op = "incrementCount" /\ storage # Disabled =>
            storage' = toString(queryCount + 1)]_vars
C24_Witness ==
    last.op = "otherTab" /\ queryCount = 7 /\ storage = toString(8)

\* C27: no request to the guest endpoint is started while the visitor is
\* unauthenticated and queryCount has reached the limit, whichever way of
\* sending is used.
C27_NoGuestSendAtLimit ==
    last.path = "/api/chat/guest" => queryCount < QUERY_LIMIT

\* C28: the queryCount of a guest never exceeds the limit when every send goes
\* through handleChatSubmit.
C28_GuestCountWithinLimit ==
    ~session.isAuthenticated => queryCount <= QUERY_LIMIT

\* C29: in a single tab with working storage, the entry is absent with
\* queryCount = 0, or holds the decimal string of queryCount; a reload would
\* start from the same count.
C29_StoreCoherent ==
    mounted =>
        /\ \/ storage = NoEntry /\ queryCount = 0
           \/ storage = toString(queryCount)
        /\ InitialCount(storage) = queryCount
C29_Witness ==
    mounted /\ last.op = "finishGuest" /\ queryCount = QUERY_LIMIT
            /\ storage = toString(QUERY_LIMIT)
====
